---- MODULE Spec2Model ----
(***************************************************************************)
(* terminal-history-navigator: history ingestion (internal/history),       *)
(* in-memory storage (internal/storage) and the start-up wiring (main.go). *)
(*                                                                         *)
(* A Go string is a sequence of one-character strings, <<"l","s">> for     *)
(* "ls", so that trimming, searching and splitting are computed and not    *)
(* assumed.  Go indexes from 0 and the model from 1; every index that      *)
(* leaves an operator is converted back where the code stores it           *)
(* (Position).                                                             *)
(***************************************************************************)
EXTENDS Integers, Sequences, FiniteSets, TLC

(***************************************************************************)
(* Bounds of the model                                                     *)
(***************************************************************************)
\* lines in all history files of the pipeline specification together
MaxTotalLines == 3
\* lines of the one file of the file-ingestion specification
MaxFileLen == 3
\* largest value handed to SetMaxLines by the model
MaxCap == 1
\* largest limit handed to GetRecent by the model
MaxLimit == 1

(***************************************************************************)
(* strings                                                                 *)
(***************************************************************************)
\* unicode.IsSpace restricted to the characters of the model
IsSpace(c) == c \in {" ", "\t"}

RECURSIVE TrimLeft(_)
TrimLeft(s) ==
  IF s # <<>> /\ IsSpace(Head(s)) THEN TrimLeft(Tail(s)) ELSE s

RECURSIVE TrimRight(_)
TrimRight(s) ==
  IF s # <<>> /\ IsSpace(s[Len(s)]) THEN TrimRight(SubSeq(s, 1, Len(s) - 1)) ELSE s

\* strings.TrimSpace
TrimSpace(s) == TrimRight(TrimLeft(s))

\* strings.HasPrefix
HasPrefix(s, p) == Len(s) >= Len(p) /\ SubSeq(s, 1, Len(p)) = p

\* strings.Contains
Contains(s, sub) ==
  \E i \in 1..(Len(s) - Len(sub) + 1) : SubSeq(s, i, i + Len(sub) - 1) = sub

\* strings.Index for a one-character separator, as a Go index: -1 when absent
Index(s, c) ==
  IF \E i \in 1..Len(s) : s[i] = c
  THEN (CHOOSE i \in 1..Len(s) : s[i] = c /\ \A j \in 1..(i - 1) : s[j] # c) - 1
  ELSE -1

\* strings.Split for a one-character separator
RECURSIVE Split(_, _)
Split(s, c) ==
  IF Index(s, c) = -1 THEN <<s>>
  ELSE <<SubSeq(s, 1, Index(s, c))>> \o Split(SubSeq(s, Index(s, c) + 2, Len(s)), c)

\* the bytes 0x00 and 0xFF, each one character of a line
NUL == "<00>"
XFF == "<FF>"

Digits == <<"0", "1", "2", "3", "4", "5", "6", "7", "8", "9">>

IsDigit(c) == \E d \in 1..10 : Digits[d] = c

DigitVal(c) == (CHOOSE d \in 1..10 : Digits[d] = c) - 1

RECURSIVE DecVal(_)
DecVal(s) == IF s = <<>> THEN 0 ELSE 10 * DecVal(SubSeq(s, 1, Len(s) - 1)) + DigitVal(s[Len(s)])

\* strconv.Atoi: an optional sign and at least one digit, else an error
Atoi(s) ==
  LET signed == s # <<>> /\ s[1] \in {"+", "-"}
      body == IF signed THEN Tail(s) ELSE s
  IN IF body # <<>> /\ \A i \in 1..Len(body) : IsDigit(body[i])
     THEN [err |-> FALSE, val |-> IF signed /\ s[1] = "-" THEN 0 - DecVal(body) ELSE DecVal(body)]
     ELSE [err |-> TRUE, val |-> 0]

\* isJustNumber: non-empty and decimal digits only
isJustNumber(s) == Len(s) # 0 /\ \A i \in 1..Len(s) : IsDigit(s[i])

(***************************************************************************)
(* internal/history/reader.go, the revision ordering commands by Position  *)
(***************************************************************************)
\* the zero value of history.Command; Directory is never assigned by the reader
Command(text, position, exitCode, hasExit) ==
  [Text |-> text, Position |-> position, Directory |-> <<>>, Count |-> 0,
   ExitCode |-> exitCode, HasExit |-> hasExit]

\* NewReader: maxLines starts at 5000
DefaultMaxLines == 5000

\* parseZshLine reading the exit code from the field before it, the elapsed
\* time
parseZshLineElapsedAsExit(rawLine, lineNum) ==
  LET line == TrimSpace(rawLine)
      semiIndex == Index(line, ";")
      possibleCmd == TrimSpace(SubSeq(line, 2, Len(line)))
      metadataPart == SubSeq(line, 2, semiIndex)
      parts == Split(metadataPart, ":")
      code == Atoi(parts[2])
      hasExit == Len(parts) >= 2 /\ parts[2] # <<>> /\ ~code.err
      exitCode == IF hasExit THEN code.val ELSE 0
      command == TrimSpace(SubSeq(line, semiIndex + 2, Len(line)))
  IN IF ~HasPrefix(line, <<":">>)
     THEN Command(line, lineNum, 0, FALSE)
     ELSE IF semiIndex = -1 \/ semiIndex = Len(line) - 1
     THEN IF Len(line) > 1 /\ possibleCmd # <<>> /\ ~Contains(possibleCmd, <<":">>)
          THEN Command(possibleCmd, lineNum, 0, FALSE)
          ELSE Command(<<>>, lineNum, 0, FALSE)
     ELSE Command(command, lineNum, exitCode, hasExit)

\* parseZshLine(line, lineNum); lineNum is the Go index of the line
parseZshLine(rawLine, lineNum) ==
  LET line == TrimSpace(rawLine)
      semiIndex == Index(line, ";")
      possibleCmd == TrimSpace(SubSeq(line, 2, Len(line)))
      metadataPart == SubSeq(line, 2, semiIndex)
      parts == Split(metadataPart, ":")
      code == Atoi(parts[3])
      hasExit == Len(parts) >= 3 /\ parts[3] # <<>> /\ ~code.err
      exitCode == IF hasExit THEN code.val ELSE 0
      command == TrimSpace(SubSeq(line, semiIndex + 2, Len(line)))
  IN IF ~HasPrefix(line, <<":">>)
     THEN Command(line, lineNum, 0, FALSE)
     ELSE IF semiIndex = -1 \/ semiIndex = Len(line) - 1
     THEN IF Len(line) > 1 /\ possibleCmd # <<>> /\ ~Contains(possibleCmd, <<":">>)
          THEN Command(possibleCmd, lineNum, 0, FALSE)
          ELSE Command(<<>>, lineNum, 0, FALSE)
     ELSE Command(command, lineNum, exitCode, hasExit)

\* filepath.Ext: the suffix from the last dot of the last path element
Ext(filename) ==
  LET dots == {i \in 1..Len(filename) :
                 filename[i] = "." /\ \A j \in i..Len(filename) : filename[j] # "/"}
  IN IF dots = {} THEN <<>>
     ELSE SubSeq(filename, CHOOSE i \in dots : \A j \in dots : j <= i, Len(filename))

BashExt == <<".", "b", "a", "s", "h", "_", "h", "i", "s", "t", "o", "r", "y">>

\* the switch of readFromFile with the dialect chosen by the file name alone:
\* a file of no known name is read as Plain
lineCommandByName(filename, line, i) ==
  IF Contains(filename, <<"z", "s", "h">>)
  THEN parseZshLine(line, i)
  ELSE Command(TrimSpace(line), i, 0, FALSE)

\* the switch of readFromFile: the command taken from one non-blank line
lineCommand(filename, line, i) ==
  IF Contains(filename, <<"z", "s", "h">>)
  THEN parseZshLine(line, i)
  ELSE IF Contains(filename, <<"b", "a", "s", "h">>) \/ Ext(filename) = BashExt
  THEN Command(TrimSpace(line), i, 0, FALSE)
  ELSE IF HasPrefix(TrimSpace(line), <<":">>)
  THEN parseZshLine(line, i)
  ELSE Command(TrimSpace(line), i, 0, FALSE)

\* the window cut from the wrong end: the first maxLines lines
firstLines(lines, cap) ==
  IF Len(lines) > cap THEN SubSeq(lines, 1, cap) ELSE lines

\* the window of readFromFile: the last maxLines lines when the file has more
lastLines(lines, cap) ==
  IF Len(lines) > cap THEN SubSeq(lines, Len(lines) - cap + 1, Len(lines)) ELSE lines

\* the loop of readFromFile over lines[k..]; i = k - 1 is the Go index
RECURSIVE parseLines(_, _, _)
parseLines(filename, lines, k) ==
  IF k > Len(lines) THEN <<>>
  ELSE IF TrimSpace(lines[k]) = <<>> THEN parseLines(filename, lines, k + 1)
  ELSE LET cmd == lineCommand(filename, lines[k], k - 1)
       IN (IF cmd.Text # <<>> THEN <<cmd>> ELSE <<>>) \o parseLines(filename, lines, k + 1)

\* readFromFile: os.Open or the scanner failing returns (nil, err)
readFromFile(filename, file, cap) ==
  IF file.status # "ok"
  THEN [err |-> TRUE, commands |-> <<>>]
  ELSE [err |-> FALSE, commands |-> parseLines(filename, lastLines(file.lines, cap), 1)]

\* isProblematicCommand
isProblematicCommand(cmd) ==
  LET cleanText == TrimSpace(cmd.Text)
  IN \/ Len(cleanText) = 0
     \/ Contains(cleanText, <<NUL>>) \/ Contains(cleanText, <<XFF>>)
     \/ isJustNumber(cleanText)

\* filterProblematicCommands
filterProblematicCommands(cmds) == SelectSeq(cmds, LAMBDA c : ~isProblematicCommand(c))

\* regexp.Compile on the patterns of the model: literal characters compile,
\* a "(" that nothing closes is a syntax error
Compile(pattern) ==
  [err |-> \E i \in 1..Len(pattern) :
             pattern[i] = "(" /\ \A j \in (i + 1)..Len(pattern) : pattern[j] # ")",
   re |-> pattern]

\* Regexp.MatchString for a pattern of literal characters: an unanchored match
MatchString(re, s) == Contains(s, re)

\* shouldExclude that reports no match
shouldExcludeNever(patterns, command) == FALSE

\* shouldExclude
shouldExclude(patterns, command) ==
  \E i \in 1..Len(patterns) : MatchString(patterns[i], command)

\* the loop of SetExcludePatterns: stops at the first pattern that fails to
\* compile and keeps what was appended before it
RECURSIVE compilePatterns(_, _)
compilePatterns(patterns, acc) ==
  IF patterns = <<>> THEN [err |-> FALSE, excludePatterns |-> acc]
  ELSE IF Compile(Head(patterns)).err THEN [err |-> TRUE, excludePatterns |-> acc]
  ELSE compilePatterns(Tail(patterns), Append(acc, Compile(Head(patterns)).re))

\* the arrangements of a sequence
Arrangements(s) ==
  LET n == Len(s)
      bij == {f \in [1..n -> 1..n] : \A i, j \in 1..n : f[i] = f[j] => i = j}
  IN {[i \in 1..n |-> s[f[i]]] : f \in bij}

\* positionLess with the comparison turned around: lower Position first
positionLessAscending(a, b) == a.Position < b.Position

\* less of both sort.Slice calls of ReadHistory: higher Position first
positionLess(a, b) == a.Position > b.Position

\* the pairs <<a, b>> of elements of s for which less(a, b) of the two
\* sort.Slice calls of ReadHistory holds
positionOrder(s) ==
  {ab \in {s[i] : i \in 1..Len(s)} \X {s[i] : i \in 1..Len(s)} : positionLess(ab[1], ab[2])}

\* sort.Slice under the less relation given as its set of pairs.  The sort is
\* not stable: every arrangement in which no element is less than an element
\* before it can be the outcome
sortSlice(s, less) ==
  {p \in Arrangements(s) : \A i, j \in 1..Len(p) : i < j => <<p[j], p[i]>> \notin less}

\* the dedup loop without the lookup in commandMap: every command is appended
RECURSIVE dedupLoopNoLookup(_, _, _, _, _)
dedupLoopNoLookup(patterns, cmds, k, commandMap, result) ==
  IF k > Len(cmds) THEN result
  ELSE LET cmd == cmds[k]
           cleanText == TrimSpace(cmd.Text)
           newCmd == [cmd EXCEPT !.Text = cleanText, !.Count = 1]
       IN IF shouldExclude(patterns, cmd.Text) \/ cleanText = <<>>
          THEN dedupLoopNoLookup(patterns, cmds, k + 1, commandMap, result)
          ELSE dedupLoopNoLookup(patterns, cmds, k + 1, commandMap, Append(result, newCmd))

\* the dedup loop of ReadHistory over cmds[k..].  commandMap holds a pointer
\* to the loop's own newCmd and result holds a copy of it made by append, so
\* what the found branch writes through the pointer reaches commandMap only
RECURSIVE dedupLoop(_, _, _, _, _)
dedupLoop(patterns, cmds, k, commandMap, result) ==
  IF k > Len(cmds) THEN result
  ELSE LET cmd == cmds[k]
           cleanText == TrimSpace(cmd.Text)
           existing == commandMap[cleanText]
           counted == [existing EXCEPT !.Count = existing.Count + 1]
           updated == IF cmd.Position > existing.Position
                      THEN [counted EXCEPT !.Position = cmd.Position,
                                           !.ExitCode = cmd.ExitCode,
                                           !.HasExit = cmd.HasExit]
                      ELSE counted
           newCmd == [cmd EXCEPT !.Text = cleanText, !.Count = 1]
       IN IF shouldExclude(patterns, cmd.Text) \/ cleanText = <<>>
          THEN dedupLoop(patterns, cmds, k + 1, commandMap, result)
          ELSE IF cleanText \in DOMAIN commandMap
          THEN dedupLoop(patterns, cmds, k + 1,
                         [commandMap EXCEPT ![cleanText] = updated], result)
          ELSE dedupLoop(patterns, cmds, k + 1,
                         [t \in DOMAIN commandMap \cup {cleanText} |->
                            IF t = cleanText THEN newCmd ELSE commandMap[t]],
                         Append(result, newCmd))

\* the first loop of ReadHistory with the error of readFromFile ending the
\* loop instead of skipping the source
RECURSIVE readSourcesStopAtError(_, _, _)
readSourcesStopAtError(srcs, fs, cap) ==
  IF srcs = <<>> THEN <<>>
  ELSE LET source == Head(srcs)
           rest == readSourcesStopAtError(Tail(srcs), fs, cap)
           read == readFromFile(source, fs[source], cap)
       IN IF fs[source].status = "missing" THEN rest
          ELSE IF read.err THEN <<>>
          ELSE read.commands \o rest

\* the first loop of ReadHistory: a missing source and a source that
\* readFromFile fails on are skipped
RECURSIVE readSources(_, _, _)
readSources(srcs, fs, cap) ==
  IF srcs = <<>> THEN <<>>
  ELSE LET source == Head(srcs)
           rest == readSources(Tail(srcs), fs, cap)
           read == readFromFile(source, fs[source], cap)
       IN IF fs[source].status = "missing" THEN rest
          ELSE IF read.err THEN rest
          ELSE read.commands \o rest

\* ReadHistory without the sort before the dedup loop
aggregateUnsorted(patterns, allCmds) ==
  LET deduped == dedupLoop(patterns, filterProblematicCommands(allCmds), 1, <<>>, <<>>)
  IN sortSlice(deduped, positionOrder(deduped))

\* ReadHistory on the concatenated commands: the lists it can return
aggregate(patterns, allCmds) ==
  LET filtered == filterProblematicCommands(allCmds)
  IN UNION {LET deduped == dedupLoop(patterns, sorted, 1, <<>>, <<>>)
            IN sortSlice(deduped, positionOrder(deduped)) :
              sorted \in sortSlice(filtered, positionOrder(filtered))}

\* ReadHistory after its first loop: what it can return; every return of the
\* function is "return result, nil"
ReadHistory(patterns, allCmds) ==
  {[err |-> FALSE, commands |-> r] : r \in aggregate(patterns, allCmds)}

(***************************************************************************)
(* The revision of the reader that orders commands by Timestamp            *)
(* (src/unnamed/part_001); times are seconds since the epoch               *)
(***************************************************************************)
\* the zero value of this revision's history.Command
CommandTS(text, timestamp, exitCode, hasExit) ==
  [Text |-> text, Timestamp |-> timestamp, Directory |-> <<>>, Count |-> 0,
   ExitCode |-> exitCode, HasExit |-> hasExit]

\* 2020-01-01 and 2030-01-01, the window parseTimestamp accepts
MinTimestamp == 1577836800
MaxTimestamp == 1893456000

\* parseTimestamp(timestampStr) with t the reading of time.Now(); its error
\* is always nil
parseTimestamp(timestampStr, t) ==
  LET head == SubSeq(timestampStr, 1, 10)
      parsed == Atoi(head)
  IN IF Len(timestampStr) >= 10 /\ ~parsed.err
        /\ parsed.val > MinTimestamp /\ parsed.val < MaxTimestamp
     THEN parsed.val
     ELSE t

\* parseZshLine(line) of this revision, with t the reading of time.Now()
parseZshLineTS(rawLine, t) ==
  LET line == TrimSpace(rawLine)
      semiIndex == Index(line, ";")
      metadataPart == SubSeq(line, 2, semiIndex)
      parts == Split(metadataPart, ":")
      timestamp == IF Len(parts) >= 1 /\ parts[1] # <<>>
                   THEN parseTimestamp(parts[1], t) ELSE t
      code == Atoi(parts[3])
      hasExit == Len(parts) >= 3 /\ parts[3] # <<>> /\ ~code.err
      exitCode == IF hasExit THEN code.val ELSE 0
      command == TrimSpace(SubSeq(line, semiIndex + 2, Len(line)))
  IN IF ~HasPrefix(line, <<":">>)
     THEN CommandTS(line, t, 0, FALSE)
     ELSE IF semiIndex = -1 \/ semiIndex = Len(line) - 1
     THEN CommandTS(<<>>, t, 0, FALSE)
     ELSE CommandTS(command, timestamp, exitCode, hasExit)

\* the switch of this revision's readFromFile; parsed is len(commands)
lineCommandTS(filename, line, parsed, t) ==
  IF Contains(filename, <<"z", "s", "h">>)
  THEN parseZshLineTS(line, t)
  ELSE IF Contains(filename, <<"b", "a", "s", "h">>) \/ Ext(filename) = BashExt
  THEN CommandTS(TrimSpace(line), t - parsed, 0, FALSE)
  ELSE IF HasPrefix(line, <<":">>)
  THEN parseZshLineTS(line, t)
  ELSE CommandTS(TrimSpace(line), t - parsed, 0, FALSE)

\* seconds the clock can advance between two lines of one file
MaxTick == 1

\* the loop of this revision's readFromFile over lines[k..]: with cmds parsed
\* so far and the clock at t, the lists it can end with
RECURSIVE parseLinesTS(_, _, _, _, _)
parseLinesTS(filename, lines, k, cmds, t) ==
  IF k > Len(lines) THEN {[commands |-> cmds, now |-> t]}
  ELSE IF TrimSpace(lines[k]) = <<>> THEN parseLinesTS(filename, lines, k + 1, cmds, t)
  ELSE UNION {LET cmd == lineCommandTS(filename, lines[k], Len(cmds), t + tick)
              IN parseLinesTS(filename, lines, k + 1,
                              IF cmd.Text # <<>> THEN Append(cmds, cmd) ELSE cmds,
                              t + tick) :
                tick \in 0..MaxTick}

\* readFromFile of this revision: what it can return and the clock after it
readFromFileTS(filename, file, cap, t) ==
  IF file.status # "ok"
  THEN {[err |-> TRUE, commands |-> <<>>, now |-> t]}
  ELSE {[err |-> FALSE, commands |-> r.commands, now |-> r.now] :
          r \in parseLinesTS(filename, lastLines(file.lines, cap), 1, <<>>, t)}

\* time.Hour, and the seconds now.AddDate(-1, 0, 0) goes back from a day of
\* September 2026: no 29 February lies in between
HourSeconds == 3600
YearSeconds == 31536000

\* isProblematicCommand of this revision without its two timestamp tests
isProblematicCommandNoWindow(cmd, t, oneYearAgo) ==
  LET cleanText == TrimSpace(cmd.Text)
  IN \/ Len(cleanText) = 0
     \/ Contains(cleanText, <<NUL>>) \/ Contains(cleanText, <<XFF>>)
     \/ Len(cleanText) < 2
     \/ isJustNumber(cleanText)

\* isProblematicCommand(cmd, now, oneYearAgo) of this revision
isProblematicCommandTS(cmd, t, oneYearAgo) ==
  LET cleanText == TrimSpace(cmd.Text)
  IN \/ cmd.Timestamp > t + HourSeconds
     \/ cmd.Timestamp < oneYearAgo
     \/ Len(cleanText) = 0
     \/ Contains(cleanText, <<NUL>>) \/ Contains(cleanText, <<XFF>>)
     \/ Len(cleanText) < 2
     \/ isJustNumber(cleanText)

\* filterProblematicCommands of this revision, with t its reading of time.Now()
filterProblematicCommandsTS(cmds, t) ==
  SelectSeq(cmds, LAMBDA c : ~isProblematicCommandTS(c, t, t - YearSeconds))

\* less of both sort.Slice calls of this revision: the later Timestamp first
timestampLess(a, b) == a.Timestamp > b.Timestamp

timestampOrder(s) ==
  {ab \in {s[i] : i \in 1..Len(s)} \X {s[i] : i \in 1..Len(s)} : timestampLess(ab[1], ab[2])}

\* the dedup loop of this revision over cmds[k..].  commandMap holds &cmd, the
\* address of the loop variable, and result holds the copy append made, so
\* the found branch writes to the loop variable and never to result: seen is
\* the set of keys of commandMap
RECURSIVE dedupLoopTS(_, _, _, _, _)
dedupLoopTS(patterns, cmds, k, seen, result) ==
  IF k > Len(cmds) THEN result
  ELSE LET cmd == cmds[k]
           cleanText == TrimSpace(cmd.Text)
       IN IF shouldExclude(patterns, cmd.Text) \/ cleanText = <<>>
          THEN dedupLoopTS(patterns, cmds, k + 1, seen, result)
          ELSE IF cleanText \in seen
          THEN dedupLoopTS(patterns, cmds, k + 1, seen, result)
          ELSE dedupLoopTS(patterns, cmds, k + 1, seen \cup {cleanText},
                           Append(result, [cmd EXCEPT !.Text = cleanText, !.Count = 1]))

\* the first loop of this revision's ReadHistory, the clock at t when it
\* starts: what allCommands can be and the clock after it
RECURSIVE readSourcesTS(_, _, _, _)
readSourcesTS(srcs, fs, cap, t) ==
  IF srcs = <<>> THEN {[commands |-> <<>>, now |-> t]}
  ELSE IF fs[Head(srcs)].status = "missing" THEN readSourcesTS(Tail(srcs), fs, cap, t)
  ELSE UNION {{[commands |-> (IF read.err THEN <<>> ELSE read.commands) \o rest.commands,
                now |-> rest.now] :
                 rest \in readSourcesTS(Tail(srcs), fs, cap, read.now)} :
               read \in readFromFileTS(Head(srcs), fs[Head(srcs)], cap, t)}

\* ReadHistory of this revision: what it can return, with the allCommands its
\* first loop built and the reading of time.Now() its filter took
ReadHistoryTS(srcs, fs, cap, patterns, t) ==
  UNION {LET filtered == filterProblematicCommandsTS(rd.commands, rd.now + tick)
         IN {[err |-> FALSE, commands |-> r, allCommands |-> rd.commands,
              now |-> rd.now + tick] :
               r \in UNION {LET deduped == dedupLoopTS(patterns, sorted, 1, {}, <<>>)
                            IN sortSlice(deduped, timestampOrder(deduped)) :
                              sorted \in sortSlice(filtered, timestampOrder(filtered))}} :
           rd \in readSourcesTS(srcs, fs, cap, t), tick \in 0..MaxTick}

(***************************************************************************)
(* internal/storage/memory.go                                              *)
(***************************************************************************)
UpperCase == <<"A", "B", "C", "D", "E", "F", "G", "H", "I", "J", "K", "L", "M",
               "N", "O", "P", "Q", "R", "S", "T", "U", "V", "W", "X", "Y", "Z">>

LowerCase == <<"a", "b", "c", "d", "e", "f", "g", "h", "i", "j", "k", "l", "m",
               "n", "o", "p", "q", "r", "s", "t", "u", "v", "w", "x", "y", "z">>

\* strings.ToLower
ToLower(s) ==
  [i \in 1..Len(s) |->
     IF \E u \in 1..26 : UpperCase[u] = s[i]
     THEN LowerCase[CHOOSE u \in 1..26 : UpperCase[u] = s[i]]
     ELSE s[i]]

\* strings.Fields: the maximal runs of non-space characters
RECURSIVE Fields(_)
Fields(s) ==
  LET t == TrimLeft(s)
      stops == {i \in 1..Len(t) : IsSpace(t[i])}
      end == IF stops = {} THEN Len(t) + 1 ELSE CHOOSE i \in stops : \A j \in stops : i <= j
  IN IF t = <<>> THEN <<>>
     ELSE <<SubSeq(t, 1, end - 1)>> \o Fields(SubSeq(t, end, Len(t)))

\* the ordering key the storage sorts by: memory.go compares the Timestamp
\* of history.Command, which the Position revision of the reader names Position
OrderKey(c) == IF "Position" \in DOMAIN c THEN c.Position ELSE c.Timestamp

\* less of the recency sorts: results[i].Timestamp.After(results[j].Timestamp)
recencyLess(a, b) == OrderKey(a) > OrderKey(b)

\* less of GetByFrequency: higher Count first, then the more recent
frequencyLess(a, b) ==
  IF a.Count # b.Count THEN a.Count > b.Count ELSE OrderKey(a) > OrderKey(b)

\* the pairs of elements of s in the less relation of the recency sorts
recencyOrder(s) ==
  {ab \in {s[i] : i \in 1..Len(s)} \X {s[i] : i \in 1..Len(s)} : recencyLess(ab[1], ab[2])}

\* the pairs of elements of s in the less relation of GetByFrequency
frequencyOrder(s) ==
  {ab \in {s[i] : i \in 1..Len(s)} \X {s[i] : i \in 1..Len(s)} : frequencyLess(ab[1], ab[2])}

\* GetRecent without the cut to limit
GetRecentUncut(cmds, limit) == sortSlice(cmds, recencyOrder(cmds))

\* GetRecent: the outcomes of the sort, cut to limit
GetRecent(cmds, limit) ==
  {IF limit > 0 /\ limit < Len(sorted) THEN SubSeq(sorted, 1, limit) ELSE sorted :
     sorted \in sortSlice(cmds, recencyOrder(cmds))}

\* GetAll
GetAll(cmds) == sortSlice(cmds, recencyOrder(cmds))

commonPatterns ==
  << <<"g", "i", "t">>, <<"m", "a", "k", "e">>, <<"n", "p", "m">>, <<"y", "a", "r", "n">>,
     <<"d", "o", "c", "k", "e", "r">>, <<"c", "d">>, <<"l", "s">>, <<"v", "i", "m">>,
     <<"c", "o", "d", "e">>, <<"p", "y", "t", "h", "o", "n">>, <<"n", "o", "d", "e">>,
     <<"g", "o">>, <<"c", "a", "r", "g", "o">>, <<"m", "v", "n">>,
     <<"g", "r", "a", "d", "l", "e">>, <<"p", "i", "p">>, <<"b", "r", "e", "w">> >>

\* calculateSimulatedFrequency
calculateSimulatedFrequency(cmd) ==
  1 + (IF \E p \in 1..Len(commonPatterns) : Contains(ToLower(cmd.Text), commonPatterns[p])
       THEN 2 ELSE 0)
    + (IF Len(cmd.Text) < 10 THEN 1 ELSE 0)
    + (IF ~Contains(cmd.Text, <<" ">>) THEN 1 ELSE 0)

\* GetByFrequency
GetByFrequency(cmds) ==
  LET frequent == SelectSeq(cmds, LAMBDA c : c.Count > 1)
      simulated == [i \in 1..Len(cmds) |->
                      [cmds[i] EXCEPT !.Count = calculateSimulatedFrequency(cmds[i])]]
      frequentCommands == IF Len(frequent) = 0 THEN simulated ELSE frequent
  IN sortSlice(frequentCommands, frequencyOrder(frequentCommands))

\* the cutset of strings.Trim in cleanWord; DQUOTE, SQUOTE and BQUOTE stand for
\* the double quote, the single quote and the backquote
DQUOTE == "<22>"
SQUOTE == "<27>"
BQUOTE == "<60>"
ShellChars == {DQUOTE, SQUOTE, BQUOTE, "(", ")", "[", "]", "{", "}", "|", "&", ";"}

RECURSIVE TrimCutset(_)
TrimCutset(w) ==
  IF w # <<>> /\ Head(w) \in ShellChars THEN TrimCutset(Tail(w))
  ELSE IF w # <<>> /\ w[Len(w)] \in ShellChars THEN TrimCutset(SubSeq(w, 1, Len(w) - 1))
  ELSE w

\* strings.TrimPrefix
TrimPrefix(s, p) == IF HasPrefix(s, p) THEN SubSeq(s, Len(p) + 1, Len(s)) ELSE s

\* cleanWord
cleanWord(word) ==
  LET w == TrimPrefix(TrimPrefix(TrimCutset(word), <<".", "/">>), <<".", ".", "/">>)
  IN IF Len(w) < 2 THEN <<>>
     ELSE IF w \in {<<"&", "&">>, <<"|", "|">>, <<">", ">">>, <<"<", "<">>,
                    <<"2", ">">>, <<"1", ">">>, <<"&", ">">>}
     THEN <<>>
     ELSE w

\* what buildIndex appends for command i (a Go index): its cleaned words in
\* order, then its prefixes of up to 10 characters
indexKeys(cmd) ==
  LET words == Fields(ToLower(cmd.Text))
      cleaned == SelectSeq([w \in 1..Len(words) |-> cleanWord(words[w])],
                           LAMBDA w : w # <<>>)
      cmdLower == ToLower(cmd.Text)
      top == IF Len(cmdLower) < 10 THEN Len(cmdLower) ELSE 10
  IN cleaned \o [j \in 1..top |-> SubSeq(cmdLower, 1, j)]

RECURSIVE indexEntries(_, _, _)
indexEntries(cmds, i, key) ==
  IF i > Len(cmds) THEN <<>>
  ELSE [n \in 1..Len(SelectSeq(indexKeys(cmds[i]), LAMBDA w : w = key)) |-> i - 1]
       \o indexEntries(cmds, i + 1, key)

\* buildIndex: word or prefix -> the Go indices of the commands it came from
buildIndex(cmds) ==
  LET keys == UNION {{indexKeys(cmds[i])[n] : n \in 1..Len(indexKeys(cmds[i]))} :
                       i \in 1..Len(cmds)}
  IN [key \in keys |-> indexEntries(cmds, 1, key)]

\* Search answering from the index alone: a command matches a query word
\* only when buildIndex entered it under that word
SearchIndexOnly(cmds, query) ==
  LET queryWords == Fields(ToLower(query))
      index == buildIndex(cmds)
      matchesAll(cmd) ==
        \A w \in 1..Len(queryWords) :
          /\ queryWords[w] \in DOMAIN index
          /\ \E n \in 1..Len(index[queryWords[w]]) :
               cmds[index[queryWords[w]][n] + 1] = cmd
  IN IF query = <<>> THEN GetRecent(cmds, 1000)
     ELSE sortSlice(SelectSeq(cmds, matchesAll), recencyOrder(cmds))

\* Search
Search(cmds, query) ==
  LET queryWords == Fields(ToLower(query))
      matchesAll(cmd) ==
        \A w \in 1..Len(queryWords) : Contains(ToLower(cmd.Text), queryWords[w])
  IN IF query = <<>> THEN GetRecent(cmds, 1000)
     ELSE sortSlice(SelectSeq(cmds, matchesAll), recencyOrder(cmds))

(***************************************************************************)
(* The pipeline of main.go: the history files as the shells left them, the *)
(* reader configured from the configuration, loadHistory, then the queries *)
(* of the interface and its refresh                                        *)
(***************************************************************************)
\* the two history sources of the configuration: the name of the first selects
\* the zsh dialect, the name of the second gives no dialect signal
ZshFile == <<".", "z", "s", "h", "_", "h", "i", "s", "t", "o", "r", "y">>
HistFile == <<"h", "i", "s", "t", "o", "r", "y">>
Sources == <<ZshFile, HistFile>>

\* the lines a shell writes in the model
LineLsExit == <<":", "1", "0", "0", "0", ":", "0", ":", "1", ";", "l", "s">>
LineLs == <<":", "2", "0", "0", "0", ":", "0", ";", "l", "s">>
LinePw == <<" ", "p", "w">>
LineBlank == <<>>
Lines == {LineLsExit, LineLs, LinePw, LineBlank}

\* the exclusion patterns of the model: one literal and one that does not compile
PatPw == <<"p", "w">>
PatBad == <<"(">>
PatternLists == {<<PatPw>>, <<PatBad, PatPw>>, <<PatPw, PatBad>>}

\* the queries the interface searches with
Queries == {<<>>, <<"P", "W">>}

VARIABLES
  files,            \* the file system: source -> [status, lines]
  maxLines,         \* Reader.maxLines
  excludePatterns,  \* Reader.excludePatterns
  patternArg,       \* the list last given to SetExcludePatterns
  patternErr,       \* whether that call returned an error
  allCommands,      \* ReadHistory: allCommands after the sources were read
  result,           \* what the last ReadHistory returned
  readErr,          \* whether it returned an error
  commands,         \* MemoryStorage.commands
  indexed,          \* MemoryStorage.indexed
  query,            \* the last query of the interface
  out,              \* what it returned
  fileCommands,     \* what the last readFromFile called on its own returned
  now,              \* the clock behind time.Now(), in seconds
  lineArg,          \* the line handed to the line parser on its own
  lineOut,          \* what the loop of readFromFile appended for it
  uiModel,          \* the Model the interface holds
  uiCmd,            \* the command the last Update returned
  uiKey,            \* the message the last Update handled
  pc                \* where main is

vars == <<files, maxLines, excludePatterns, patternArg, patternErr, allCommands,
          result, readErr, commands, indexed, query, out, fileCommands, now,
          lineArg, lineOut, uiModel, uiCmd, uiKey, pc>>

\* what the pipeline leaves alone
fileVars == <<fileCommands, now>>

\* what reading one file on its own leaves alone
pipelineVars == <<excludePatterns, patternArg, patternErr, allCommands, result,
                  readErr, commands, indexed, query, out>>

\* what everything but the line parser on its own leaves alone
parseVars == <<lineArg, lineOut>>

\* what everything but the interface leaves alone
uiVars == <<uiModel, uiCmd, uiKey>>

NoLine == [raw |-> <<>>]

\* no Model was built yet
NoModel == [mode |-> "none"]

NoParse == [done |-> FALSE, commands |-> <<>>]

NoRead == [err |-> FALSE, commands |-> <<>>]

\* the clock when the program starts
StartTime == 1790000000

NoQuery == [op |-> "none"]

TotalLines == Len(files[ZshFile].lines) + Len(files[HistFile].lines)

\* NewReader and NewMemoryStorage, before any history file was written
Init ==
  /\ files = [f \in {ZshFile, HistFile} |-> [status |-> "ok", lines |-> <<>>]]
  /\ maxLines = DefaultMaxLines
  /\ excludePatterns = <<>>
  /\ patternArg = <<>>
  /\ patternErr = FALSE
  /\ allCommands = <<>>
  /\ result = <<>>
  /\ readErr = FALSE
  /\ commands = <<>>
  /\ indexed = <<>>
  /\ query = NoQuery
  /\ out = <<>>
  /\ fileCommands = NoRead
  /\ now = StartTime
  /\ lineArg = NoLine
  /\ lineOut = NoParse
  /\ uiModel = NoModel
  /\ uiCmd = "nil"
  /\ uiKey = "none"
  /\ pc = "new"

\* a shell appends a line to its history file before the program starts
ShellAppend(f, line) ==
  /\ pc = "new"
  /\ files[f].status = "ok"
  /\ TotalLines < MaxTotalLines
  /\ files' = [files EXCEPT ![f].lines = Append(@, line)]
  /\ UNCHANGED <<maxLines, excludePatterns, patternArg, patternErr, allCommands,
                 result, commands, indexed, query, out, pc>>
  /\ UNCHANGED fileVars
  /\ UNCHANGED readErr
  /\ UNCHANGED parseVars
  /\ UNCHANGED uiVars

\* a source that was never written does not exist or cannot be opened
SourceUnavailable(f, status) ==
  /\ pc = "new"
  /\ files[f] = [status |-> "ok", lines |-> <<>>]
  /\ files' = [files EXCEPT ![f].status = status]
  /\ UNCHANGED <<maxLines, excludePatterns, patternArg, patternErr, allCommands,
                 result, commands, indexed, query, out, pc>>
  /\ UNCHANGED fileVars
  /\ UNCHANGED readErr
  /\ UNCHANGED parseVars
  /\ UNCHANGED uiVars

\* main: reader.SetMaxLines(cfg.Performance.MaxHistoryLines)
SetMaxLines(n) ==
  /\ pc = "new"
  /\ maxLines' = n
  /\ pc' = "capped"
  /\ UNCHANGED <<files, excludePatterns, patternArg, patternErr, allCommands,
                 result, commands, indexed, query, out>>
  /\ UNCHANGED fileVars
  /\ UNCHANGED readErr
  /\ UNCHANGED parseVars
  /\ UNCHANGED uiVars

\* main: reader.SetExcludePatterns(cfg.ExcludePatterns) for a non-empty list;
\* an error is printed as a warning and main goes on
SetExcludePatterns(patterns) ==
  /\ pc = "capped"
  /\ excludePatterns' = compilePatterns(patterns, <<>>).excludePatterns
  /\ patternErr' = compilePatterns(patterns, <<>>).err
  /\ patternArg' = patterns
  /\ pc' = "configured"
  /\ UNCHANGED <<files, maxLines, allCommands, result, commands, indexed, query, out>>
  /\ UNCHANGED fileVars
  /\ UNCHANGED readErr
  /\ UNCHANGED parseVars
  /\ UNCHANGED uiVars

\* loadHistory storing the new commands beside the index of the old ones
loadHistoryStaleIndex ==
  /\ pc \in {"capped", "configured", "ui"}
  /\ allCommands' = readSources(Sources, files, maxLines)
  /\ \E r \in ReadHistory(excludePatterns, allCommands') :
       /\ result' = r.commands
       /\ readErr' = r.err
       /\ commands' = IF r.err THEN commands ELSE r.commands
  /\ indexed' = indexed
  /\ query' = NoQuery
  /\ out' = <<>>
  /\ pc' = "ui"
  /\ UNCHANGED <<files, maxLines, excludePatterns, patternArg, patternErr>>
  /\ UNCHANGED fileVars
  /\ UNCHANGED parseVars
  /\ UNCHANGED uiVars

\* loadHistory, at start-up and as the refresh callback: ReadHistory, whose
\* error is always nil, then Store with its buildIndex.  The interface
\* queries again after a load, so the last query and its list are forgotten
loadHistory ==
  /\ pc \in {"capped", "configured", "ui"}
  /\ allCommands' = readSources(Sources, files, maxLines)
  /\ \E r \in ReadHistory(excludePatterns, allCommands') :
       /\ result' = r.commands
       /\ readErr' = r.err
       /\ commands' = IF r.err THEN commands ELSE r.commands
  /\ indexed' = buildIndex(commands')
  /\ query' = NoQuery
  /\ out' = <<>>
  /\ pc' = "ui"
  /\ UNCHANGED <<files, maxLines, excludePatterns, patternArg, patternErr>>
  /\ UNCHANGED fileVars
  /\ UNCHANGED parseVars
  /\ UNCHANGED uiVars

\* the queries of the Storage interface; none of them writes the storage
DoSearch(q) ==
  /\ pc = "ui"
  /\ out' \in Search(commands, q)
  /\ query' = [op |-> "Search", arg |-> q]
  /\ UNCHANGED <<files, maxLines, excludePatterns, patternArg, patternErr,
                 allCommands, result, commands, indexed, pc>>
  /\ UNCHANGED fileVars
  /\ UNCHANGED readErr
  /\ UNCHANGED parseVars
  /\ UNCHANGED uiVars

DoGetRecent(limit) ==
  /\ pc = "ui"
  /\ out' \in GetRecent(commands, limit)
  /\ query' = [op |-> "GetRecent", arg |-> limit]
  /\ UNCHANGED <<files, maxLines, excludePatterns, patternArg, patternErr,
                 allCommands, result, commands, indexed, pc>>
  /\ UNCHANGED fileVars
  /\ UNCHANGED readErr
  /\ UNCHANGED parseVars
  /\ UNCHANGED uiVars

DoGetByFrequency ==
  /\ pc = "ui"
  /\ out' \in GetByFrequency(commands)
  /\ query' = [op |-> "GetByFrequency"]
  /\ UNCHANGED <<files, maxLines, excludePatterns, patternArg, patternErr,
                 allCommands, result, commands, indexed, pc>>
  /\ UNCHANGED fileVars
  /\ UNCHANGED readErr
  /\ UNCHANGED parseVars
  /\ UNCHANGED uiVars

DoGetAll ==
  /\ pc = "ui"
  /\ out' \in GetAll(commands)
  /\ query' = [op |-> "GetAll"]
  /\ UNCHANGED <<files, maxLines, excludePatterns, patternArg, patternErr,
                 allCommands, result, commands, indexed, pc>>
  /\ UNCHANGED fileVars
  /\ UNCHANGED readErr
  /\ UNCHANGED parseVars
  /\ UNCHANGED uiVars

Next ==
  \/ \E f \in {ZshFile, HistFile}, line \in Lines : ShellAppend(f, line)
  \/ \E f \in {ZshFile, HistFile}, status \in {"missing", "unreadable"} :
       SourceUnavailable(f, status)
  \/ \E n \in (1..MaxCap) \cup {DefaultMaxLines} : SetMaxLines(n)
  \/ \E patterns \in PatternLists : SetExcludePatterns(patterns)
  \/ loadHistory
  \/ \E q \in Queries : DoSearch(q)
  \/ \E limit \in 0..MaxLimit : DoGetRecent(limit)
  \/ DoGetByFrequency
  \/ DoGetAll

Spec == Init /\ [][Next]_vars

(***************************************************************************)
(* readFromFile on its own: one history file, whose name selects the       *)
(* dialect, read under a cap                                               *)
(***************************************************************************)
BashFile == <<".", "b", "a", "s", "h", "_", "h", "i", "s", "t", "o", "r", "y">>
FileNames == {ZshFile, BashFile, HistFile}

\* the lines of the one file
LineCd == <<" ", "c", "d">>
LineGarbage == <<":", "x">>
FileLines == {<<"l", "s">>, LineCd, LineBlank, LineLs, LineGarbage}

\* largest value handed to SetMaxLines before one file is read
MaxFileCap == 2

BoundedSeq(S, n) == UNION {[1..k -> S] : k \in 0..n}

\* one existing file of up to MaxFileLen lines
InitFile ==
  /\ \E f \in FileNames, lines \in BoundedSeq(FileLines, MaxFileLen) :
       files = [g \in FileNames |->
                  IF g = f THEN [status |-> "ok", lines |-> lines]
                  ELSE [status |-> "missing", lines |-> <<>>]]
  /\ maxLines = DefaultMaxLines
  /\ excludePatterns = <<>>
  /\ patternArg = <<>>
  /\ patternErr = FALSE
  /\ allCommands = <<>>
  /\ result = <<>>
  /\ readErr = FALSE
  /\ commands = <<>>
  /\ indexed = <<>>
  /\ query = NoQuery
  /\ out = <<>>
  /\ fileCommands = NoRead
  /\ now = StartTime
  /\ lineArg = NoLine
  /\ lineOut = NoParse
  /\ uiModel = NoModel
  /\ uiCmd = "nil"
  /\ uiKey = "none"
  /\ pc = "new"

\* readFromFile(f), the Position revision
ReadFromFile(f) ==
  /\ pc \in {"new", "capped"}
  /\ fileCommands' = readFromFile(f, files[f], maxLines)
  /\ pc' = "read"
  /\ UNCHANGED <<files, maxLines, now>>
  /\ UNCHANGED pipelineVars
  /\ UNCHANGED parseVars
  /\ UNCHANGED uiVars

\* readFromFile(f), the Timestamp revision
ReadFromFileTS(f) ==
  /\ pc \in {"new", "capped"}
  /\ \E r \in readFromFileTS(f, files[f], maxLines, now) :
       /\ fileCommands' = [err |-> r.err, commands |-> r.commands]
       /\ now' = r.now
  /\ pc' = "read"
  /\ UNCHANGED <<files, maxLines>>
  /\ UNCHANGED pipelineVars
  /\ UNCHANGED parseVars
  /\ UNCHANGED uiVars

NextFile ==
  \/ \E n \in 1..MaxFileCap : SetMaxLines(n)
  \/ \E f \in FileNames : ReadFromFile(f)

SpecFile == InitFile /\ [][NextFile]_vars

NextFileTS ==
  \/ \E n \in 1..MaxFileCap : SetMaxLines(n)
  \/ \E f \in FileNames : ReadFromFileTS(f)

SpecFileTS == InitFile /\ [][NextFileTS]_vars

(***************************************************************************)
(* What ReadHistory was given, stated without the reader's own loops       *)
(***************************************************************************)
\* a raw command passes validity filtering
Valid(c) ==
  /\ TrimSpace(c.Text) # <<>>
  /\ \A i \in 1..Len(c.Text) : c.Text[i] \notin {NUL, XFF}
  /\ \E i \in 1..Len(TrimSpace(c.Text)) : ~IsDigit(TrimSpace(c.Text)[i])

\* a text matches one of the patterns the reader holds
Excluded(text) == \E i \in 1..Len(excludePatterns) : MatchString(excludePatterns[i], text)

\* the raw occurrences of the last ReadHistory that survive validity
\* filtering and exclusion
Survivors == SelectSeq(allCommands, LAMBDA c : Valid(c) /\ ~Excluded(c.Text))

\* the surviving raw occurrences of one trimmed text
OccurrencesOf(text) == SelectSeq(Survivors, LAMBDA c : TrimSpace(c.Text) = text)

Texts(cmds) == {cmds[i].Text : i \in 1..Len(cmds)}

\* C1: the list returned by ReadHistory holds exactly one record per distinct
\* trimmed text that survives filtering and exclusion: no two records share a
\* text and every surviving text is there.
C1_OneRecordPerText ==
  pc = "ui" =>
    /\ \A i, j \in 1..Len(result) : result[i].Text = result[j].Text => i = j
    /\ Texts(result) = {TrimSpace(Survivors[i].Text) : i \in 1..Len(Survivors)}

\* C1 witness: ReadHistory has returned for an input in which one text
\* survives twice and another text survives as well.
C1_Witness ==
  /\ pc = "ui"
  /\ \E i, j \in 1..Len(Survivors) : i # j /\ Survivors[i].Text = Survivors[j].Text
  /\ Cardinality(Texts(result)) >= 2

\* C2: the count of every returned record is the number of surviving raw
\* occurrences of its text.
C2_CountIsOccurrences ==
  pc = "ui" => \A i \in 1..Len(result) : result[i].Count = Len(OccurrencesOf(result[i].Text))

\* C3: the ordering key of every returned record is the maximum over the raw
\* occurrences of its text, and its exit code and exit flag are those of an
\* occurrence that has this maximum key.
C3_MostRecentWins ==
  pc = "ui" =>
    \A i \in 1..Len(result) :
      LET occ == OccurrencesOf(result[i].Text)
      IN /\ \A k \in 1..Len(occ) : occ[k].Position <= result[i].Position
         /\ \E k \in 1..Len(occ) :
              /\ occ[k].Position = result[i].Position
              /\ occ[k].ExitCode = result[i].ExitCode
              /\ occ[k].HasExit = result[i].HasExit

\* C3 witness: a text occurred at two positions with different exit
\* information, the older occurrence first in the input.
C3_Witness ==
  /\ pc = "ui"
  /\ \E i \in 1..Len(result) :
       LET occ == OccurrencesOf(result[i].Text)
       IN \E k, l \in 1..Len(occ) :
            /\ k < l
            /\ occ[k].Position < occ[l].Position
            /\ occ[k].HasExit # occ[l].HasExit

\* C4: the aggregation is permutation-invariant: every ordering of the raw
\* commands of the last ReadHistory yields the records it returned, with the
\* same texts, counts, ordering keys and exit codes.
C4_PermutationInvariant ==
  pc = "ui" =>
    \A p \in Arrangements(allCommands) :
      \A r \in aggregate(excludePatterns, p) :
        {r[i] : i \in 1..Len(r)} = {result[i] : i \in 1..Len(result)}

\* C5: after ReadHistory and Store no record matching a compiled exclusion
\* pattern is returned by Search, GetRecent, GetByFrequency or GetAll, and
\* the uncapped queries still return every valid text that matches none.
C5_ExclusionEnforced ==
  (pc = "ui" /\ query.op # "none") =>
    /\ \A i \in 1..Len(out) : ~Excluded(out[i].Text)
    /\ (query \in {[op |-> "GetAll"], [op |-> "GetByFrequency"],
                   [op |-> "GetRecent", arg |-> 0], [op |-> "Search", arg |-> <<>>]})
         => \A k \in 1..Len(allCommands) :
              (Valid(allCommands[k]) /\ ~Excluded(allCommands[k].Text))
                => TrimSpace(allCommands[k].Text) \in Texts(out)

\* C5 witness: a pattern is configured, the history holds a command it
\* matches and one it does not, and a query has returned.
C5_Witness ==
  /\ pc = "ui"
  /\ query.op = "GetAll"
  /\ excludePatterns # <<>>
  /\ \E k \in 1..Len(allCommands) : Valid(allCommands[k]) /\ Excluded(allCommands[k].Text)
  /\ out # <<>>

\* C6: when the list given to SetExcludePatterns holds a malformed pattern,
\* the error is reported and every well-formed pattern of the list, before
\* or after the malformed one, is enforced by the next ReadHistory.
C6_WellFormedPatternsEnforced ==
  (pc = "ui" /\ \E i \in 1..Len(patternArg) : Compile(patternArg[i]).err) =>
    /\ patternErr
    /\ \A i \in 1..Len(patternArg) :
         ~Compile(patternArg[i]).err =>
           \A k \in 1..Len(result) : ~MatchString(patternArg[i], result[k].Text)

\* C7: the list returned by ReadHistory is sorted by ordering key, highest
\* first.
C7_SortedByRecency ==
  pc = "ui" => \A i \in 1..(Len(result) - 1) : result[i].Position >= result[i + 1].Position

\* C7 witness: ReadHistory returned records with different ordering keys.
C7_Witness ==
  /\ pc = "ui"
  /\ \E i, j \in 1..Len(result) : result[i].Position # result[j].Position

\* C8: the same text as an Extended line with ts=1000 in the first source
\* and with ts=2000 in the second gives one record with count 2 whose
\* ordering key is the larger timestamp.
C8_ScenarioA ==
  (/\ pc = "ui"
   /\ excludePatterns = <<>>
   /\ files[ZshFile] = [status |-> "ok", lines |-> <<LineLsExit>>]
   /\ files[HistFile] = [status |-> "ok", lines |-> <<LineLs>>])
  => /\ Len(result) = 1
     /\ result[1].Text = <<"l", "s">>
     /\ result[1].Count = 2
     /\ result[1].Position = 2000

\* the file readFromFile was called on when it returned without an error
FileRead == CHOOSE f \in FileNames : files[f].status = "ok"

\* a line gives no line that starts with the marker after trimming
IsPlainLine(line) == ~HasPrefix(TrimSpace(line), <<":">>)

\* C9: in one file of Plain lines the ordering keys strictly increase with
\* the line position: a command from a later line has the greater key.
C9_PlainKeysIncrease ==
  (/\ pc = "read"
   /\ ~fileCommands.err
   /\ ~Contains(FileRead, <<"z", "s", "h">>)
   /\ \A i \in 1..Len(files[FileRead].lines) : IsPlainLine(files[FileRead].lines[i]))
  => \A k, l \in 1..Len(fileCommands.commands) :
       k < l => OrderKey(fileCommands.commands[k]) < OrderKey(fileCommands.commands[l])

\* the lines readFromFile has to consider: the last maxLines of the file
KeptLines ==
  LET lines == files[FileRead].lines
      dropped == IF Len(lines) > maxLines THEN Len(lines) - maxLines ELSE 0
  IN [i \in 1..(Len(lines) - dropped) |-> lines[dropped + i]]

\* a line gives a command
GivesCommand(line) ==
  TrimSpace(line) # <<>> /\ lineCommand(FileRead, line, 0).Text # <<>>

\* C10: readFromFile produces its commands from the last cap lines of the
\* file only, in file order, and from every line when the file has no more
\* than cap lines.
C10_LastCapLines ==
  (pc = "read" /\ ~fileCommands.err) =>
    LET giving == SelectSeq(KeptLines, GivesCommand)
        cmds == fileCommands.commands
    IN /\ Len(cmds) = Len(giving)
       /\ \A k \in 1..Len(cmds) : cmds[k].Text = lineCommand(FileRead, giving[k], 0).Text
       /\ \A k \in 1..Len(cmds) : cmds[k].Position < Len(KeptLines)

\* C10 witness: the file has more lines than the cap, a line before the
\* window gives a command no line of the window gives, and the read returned
\* commands.
C10_Witness ==
  /\ pc = "read"
  /\ ~fileCommands.err
  /\ Len(files[FileRead].lines) > maxLines
  /\ GivesCommand(files[FileRead].lines[1])
  /\ \A i \in 1..Len(KeptLines) :
       lineCommand(FileRead, KeptLines[i], 0).Text
         # lineCommand(FileRead, files[FileRead].lines[1], 0).Text
  /\ fileCommands.commands # <<>>

(***************************************************************************)
(* ReadHistory over sources of every kind: a source exists or not, opens   *)
(* or not, and its scanner reads it to the end or fails on the way         *)
(***************************************************************************)
\* NewReader and NewMemoryStorage: everything but the file system
Constructed ==
  /\ maxLines = DefaultMaxLines
  /\ excludePatterns = <<>>
  /\ patternArg = <<>>
  /\ patternErr = FALSE
  /\ allCommands = <<>>
  /\ result = <<>>
  /\ readErr = FALSE
  /\ commands = <<>>
  /\ indexed = <<>>
  /\ query = NoQuery
  /\ out = <<>>
  /\ fileCommands = NoRead
  /\ now = StartTime
  /\ lineArg = NoLine
  /\ lineOut = NoParse
  /\ uiModel = NoModel
  /\ uiCmd = "nil"
  /\ uiKey = "none"
  /\ pc = "new"

\* "missing": os.Stat reports that the file does not exist; "unreadable":
\* os.Open fails; "readerror": scanner.Err() is set after the scanner gave
\* the lines of the file; "ok": the scanner gave every line
SourceStatus == {"ok", "missing", "unreadable", "readerror"}

\* the two sources of the configuration, each of some status, with at most
\* MaxTotalLines lines between them
InitSources ==
  /\ \E zl, hl \in BoundedSeq(Lines, MaxTotalLines), zs, hs \in SourceStatus :
       /\ Len(zl) + Len(hl) <= MaxTotalLines
       /\ zs \in {"missing", "unreadable"} => zl = <<>>
       /\ hs \in {"missing", "unreadable"} => hl = <<>>
       /\ files = [f \in {ZshFile, HistFile} |->
                     IF f = ZshFile THEN [status |-> zs, lines |-> zl]
                     ELSE [status |-> hs, lines |-> hl]]
  /\ Constructed

NextSources ==
  \/ \E n \in (1..MaxCap) \cup {DefaultMaxLines} : SetMaxLines(n)
  \/ loadHistory

SpecSources == InitSources /\ [][NextSources]_vars

\* the commands of the lines of a source, had it been read without an error
LinesCommands(f) == parseLines(f, lastLines(files[f].lines, maxLines), 1)

\* the commands of the sources that were read to the end, in source order
Ingested ==
  (IF files[ZshFile].status = "ok" THEN LinesCommands(ZshFile) ELSE <<>>)
    \o (IF files[HistFile].status = "ok" THEN LinesCommands(HistFile) ELSE <<>>)

\* C11: ReadHistory never returns an error because of its sources: a missing
\* source and a source that cannot be opened are skipped and the commands of
\* the other sources are ingested, and when no source can be read the result
\* is the empty list with a nil error.
C11_SourcesNeverFail ==
  pc = "ui" =>
    /\ ~readErr
    /\ (\A f \in {ZshFile, HistFile} : files[f].status # "readerror")
         => allCommands = Ingested
    /\ (\A f \in {ZshFile, HistFile} : files[f].status # "ok") => result = <<>>

\* C11 witness: ReadHistory has returned commands although its first source
\* could not be opened.
C11_Witness ==
  /\ pc = "ui"
  /\ files[ZshFile].status = "unreadable"
  /\ files[HistFile].status = "ok"
  /\ result # <<>>
  /\ ~readErr

\* C12: when the scanner fails after it gave k lines of a source, the
\* commands parsed from those k lines are yielded into the aggregation.
C12_PartialReadYielded ==
  pc = "ui" =>
    \A f \in {ZshFile, HistFile} :
      files[f].status = "readerror" =>
        \A k \in 1..Len(LinesCommands(f)) :
          \E a \in 1..Len(allCommands) : allCommands[a] = LinesCommands(f)[k]

(***************************************************************************)
(* One line through the loop of readFromFile for a zsh history file        *)
(***************************************************************************)
\* most blanks put before and after a line
MaxPad == 1

Pad(n) == [i \in 1..n |-> " "]

\* the fields an Extended line is written from
TsFields == {<<"1", "6", "0", "0", "0", "0", "0", "0", "0", "0">>,
             <<" ", "1", "6", "0", "0", "0", "0", "0", "0", "0", "0">>}
NoField == [present |-> FALSE, text |-> <<>>]
ExitFields ==
  {NoField} \cup {[present |-> TRUE, text |-> t] :
                    t \in {<<>>, <<"1">>, <<"x">>, <<"-", "1">>, <<"1", "2">>}}
MakeBuild == <<"m", "a", "k", "e", " ", "b", "u", "i", "l", "d">>
CommandTexts == {MakeBuild, <<"a", ";", "b">>, <<" ", "l", "s">>, <<";">>, <<"1">>,
                 <<"x", ":", "y">>}

\* :<ts>:<elapsed>[:<exit_code>];<command text> between blanks
ExtendedLine(l, ts, exit, text, r) ==
  [kind |-> "extended",
   raw |-> Pad(l) \o <<":">> \o ts \o <<":", "0">>
             \o (IF exit.present THEN <<":">> \o exit.text ELSE <<>>)
             \o <<";">> \o text \o Pad(r),
   exit |-> exit, text |-> text]

\* lines that start with the marker and have no separator, or end with it
Garbage == <<":", "g", "a", "r", "b", "a", "g", "e">>
MalformedTexts == {Garbage, <<":", "x", ":", "y">>, <<":", "1", ":", "0", ";">>, <<":">>,
                   <<":", "x", ";">>, <<":", "a", " ", "b">>, <<":", ";">>}

OtherLine(kind, l, text, r) ==
  [kind |-> kind, raw |-> Pad(l) \o text \o Pad(r), exit |-> NoField, text |-> text]

ParseInputs ==
  {ExtendedLine(l, ts, exit, text, r) :
     l \in 0..MaxPad, ts \in TsFields, exit \in ExitFields, text \in CommandTexts,
     r \in 0..MaxPad}
  \cup {OtherLine("malformed", l, text, r) :
          l \in 0..MaxPad, text \in MalformedTexts, r \in 0..MaxPad}
  \cup {OtherLine("plain", l, text, r) :
          l \in 0..MaxPad, text \in {<<"l", "s">>, <<>>}, r \in 0..MaxPad}

\* a zsh history file gave this line
InitParse ==
  /\ files = [f \in {ZshFile, HistFile} |-> [status |-> "ok", lines |-> <<>>]]
  /\ maxLines = DefaultMaxLines
  /\ excludePatterns = <<>>
  /\ patternArg = <<>>
  /\ patternErr = FALSE
  /\ allCommands = <<>>
  /\ result = <<>>
  /\ readErr = FALSE
  /\ commands = <<>>
  /\ indexed = <<>>
  /\ query = NoQuery
  /\ out = <<>>
  /\ fileCommands = NoRead
  /\ now = StartTime
  /\ lineArg \in ParseInputs
  /\ lineOut = NoParse
  /\ uiModel = NoModel
  /\ uiCmd = "nil"
  /\ uiKey = "none"
  /\ pc = "new"

\* one pass of the loop of readFromFile, the Position revision, over line i
\* of a file whose name holds "zsh"
ParseLine(i) ==
  /\ pc = "new"
  /\ lineOut' =
       [done |-> TRUE,
        commands |->
          IF TrimSpace(lineArg.raw) = <<>> THEN <<>>
          ELSE IF lineCommand(ZshFile, lineArg.raw, i).Text # <<>>
          THEN <<lineCommand(ZshFile, lineArg.raw, i)>>
          ELSE <<>>]
  /\ pc' = "parsed"
  /\ UNCHANGED <<files, maxLines, fileCommands, now, lineArg>>
  /\ UNCHANGED pipelineVars
  /\ UNCHANGED uiVars

\* the same pass of the Timestamp revision, the clock having advanced by tick
ParseLineTS(tick) ==
  /\ pc = "new"
  /\ now' = now + tick
  /\ lineOut' =
       [done |-> TRUE,
        commands |->
          IF TrimSpace(lineArg.raw) = <<>> THEN <<>>
          ELSE IF lineCommandTS(ZshFile, lineArg.raw, 0, now').Text # <<>>
          THEN <<lineCommandTS(ZshFile, lineArg.raw, 0, now')>>
          ELSE <<>>]
  /\ pc' = "parsed"
  /\ UNCHANGED <<files, maxLines, fileCommands, lineArg>>
  /\ UNCHANGED pipelineVars
  /\ UNCHANGED uiVars

NextParse == \E i \in 0..1 : ParseLine(i)

SpecParse == InitParse /\ [][NextParse]_vars

NextParseTS == \E tick \in 0..MaxTick : ParseLineTS(tick)

SpecParseTS == InitParse /\ [][NextParseTS]_vars

\* a field is a decimal number, with or without a sign
NumericField(t) ==
  LET body == IF t # <<>> /\ t[1] \in {"+", "-"} THEN Tail(t) ELSE t
  IN body # <<>> /\ \A i \in 1..Len(body) : IsDigit(body[i])

\* the number a numeric field stands for
FieldValue(t) ==
  IF t[1] = "-" THEN 0 - DecVal(Tail(t))
  ELSE IF t[1] = "+" THEN DecVal(Tail(t))
  ELSE DecVal(t)

\* C13: an Extended line with a non-empty text after the first ';' gives one
\* command whose text is everything after the first ';', trimmed, later ';'
\* kept; its exit flag is set exactly when the exit-code field is present and
\* numeric, and then its exit code is the value of that field.
C13_ExtendedLineParsed ==
  (pc = "parsed" /\ lineArg.kind = "extended") =>
    /\ Len(lineOut.commands) = 1
    /\ lineOut.commands[1].Text = TrimSpace(lineArg.text)
    /\ lineOut.commands[1].HasExit
         = (lineArg.exit.present /\ NumericField(lineArg.exit.text))
    /\ lineOut.commands[1].HasExit
         => lineOut.commands[1].ExitCode = FieldValue(lineArg.exit.text)

\* C13 witness: the line of Scenario C, ":1600000000:0:1;make build", was
\* parsed into a command with exit code 1.
C13_Witness ==
  /\ pc = "parsed"
  /\ lineArg.raw = <<":", "1", "6", "0", "0", "0", "0", "0", "0", "0", "0", ":", "0",
                     ":", "1", ";">> \o MakeBuild
  /\ lineOut.commands # <<>>
  /\ lineOut.commands[1].Text = MakeBuild
  /\ lineOut.commands[1].ExitCode = 1
  /\ lineOut.commands[1].HasExit

\* C14: the malformed line ":garbage", marker present and no separator,
\* produces no command.
C14_GarbageGivesNothing ==
  (pc = "parsed" /\ lineArg.raw = Garbage) => lineOut.commands = <<>>

\* what follows the marker of a line, trimmed
AfterMarker(raw) == TrimSpace(Tail(TrimSpace(raw)))

\* C15: a line that starts with the marker and has no separator gives the
\* text after the marker as a command exactly when that text is non-empty
\* and holds no further ':'; a malformed line of any other shape, the
\* separator as its last character included, gives no command.
C15_MalformedLinePolicy ==
  (pc = "parsed" /\ lineArg.kind = "malformed") =>
    LET recovered == /\ ~Contains(lineArg.raw, <<";">>)
                     /\ AfterMarker(lineArg.raw) # <<>>
                     /\ ~Contains(AfterMarker(lineArg.raw), <<":">>)
    IN IF recovered
       THEN /\ Len(lineOut.commands) = 1
            /\ lineOut.commands[1].Text = AfterMarker(lineArg.raw)
       ELSE lineOut.commands = <<>>

(***************************************************************************)
(* The pipeline of main.go with the Timestamp revision of the reader       *)
(***************************************************************************)
\* lines in all history files of this pipeline together
MaxTSLines == 2

\* :<ts>:0;<text>
ExtLine(ts, text) == <<":">> \o ts \o <<":", "0", ";">> \o text

\* timestamps around the start of the program, 1790000000: a quarter of an
\* hour before it, two seconds more than an hour after it, a day after it,
\* and a day of 2020
TsInside == <<"1", "7", "8", "9", "9", "9", "9", "1", "0", "0">>
TsGraceEdge == <<"1", "7", "9", "0", "0", "0", "3", "6", "0", "2">>
TsFuture == <<"1", "7", "9", "0", "0", "8", "6", "4", "0", "0">>
TsOld == <<"1", "6", "0", "0", "0", "0", "0", "0", "0", "0">>

TSLines == {ExtLine(TsInside, <<"l", "s">>), ExtLine(TsGraceEdge, <<"p", "w", "d">>),
            ExtLine(TsFuture, <<"c", "d">>), ExtLine(TsOld, <<"c", "d">>),
            <<"w">>, <<"4", "2">>, <<"l", NUL>>}

\* the two sources as the shells left them, NewReader and NewMemoryStorage
InitTS ==
  /\ \E zl, hl \in BoundedSeq(TSLines, MaxTSLines) :
       /\ Len(zl) + Len(hl) <= MaxTSLines
       /\ files = [f \in {ZshFile, HistFile} |->
                     [status |-> "ok", lines |-> IF f = ZshFile THEN zl ELSE hl]]
  /\ Constructed

\* loadHistory at start-up with this revision's ReadHistory, then Store
loadHistoryTS ==
  /\ pc = "capped"
  /\ \E r \in ReadHistoryTS(Sources, files, maxLines, excludePatterns, now) :
       /\ allCommands' = r.allCommands
       /\ result' = r.commands
       /\ readErr' = r.err
       /\ commands' = IF r.err THEN commands ELSE r.commands
       /\ now' = r.now
  /\ indexed' = buildIndex(commands')
  /\ query' = NoQuery
  /\ out' = <<>>
  /\ pc' = "ui"
  /\ UNCHANGED <<files, maxLines, excludePatterns, patternArg, patternErr, fileCommands>>
  /\ UNCHANGED parseVars
  /\ UNCHANGED uiVars

NextTS ==
  \/ \E n \in (1..MaxCap) \cup {DefaultMaxLines} : SetMaxLines(n)
  \/ loadHistoryTS

SpecTS == InitTS /\ [][NextTS]_vars

\* the ordering key of a record is a timestamp no more than the grace period
\* ahead of now and no older than the age horizon; a record whose key is a
\* line index has no timestamp to judge
InWindow(c) ==
  "Timestamp" \in DOMAIN c =>
    (c.Timestamp <= now + HourSeconds /\ c.Timestamp >= now - YearSeconds)

\* C16: no record returned by ReadHistory has a text that is empty after
\* trimming, holds a NUL or 0xFF byte or is digits only, and every raw record
\* with none of these defects and a plausible ordering key passes validity
\* filtering, so that its text is returned.
C16_ValidityFilter ==
  (pc = "ui" /\ excludePatterns = <<>>) =>
    /\ \A i \in 1..Len(result) : Valid(result[i])
    /\ \A k \in 1..Len(allCommands) :
         (Valid(allCommands[k]) /\ InWindow(allCommands[k]))
           => TrimSpace(allCommands[k].Text) \in Texts(result)

\* the text of a record passes the tests this revision puts on texts
TextKeptTS(c) ==
  /\ Len(TrimSpace(c.Text)) >= 2
  /\ ~Contains(c.Text, <<NUL>>) /\ ~Contains(c.Text, <<XFF>>)
  /\ ~isJustNumber(TrimSpace(c.Text))

\* C17: validity filtering drops every raw record whose timestamp is more
\* than the grace period ahead of now or older than the age horizon and
\* keeps the records whose timestamp lies inside the window; no returned
\* record has a timestamp outside it.
C17_TimeWindow ==
  (pc = "ui" /\ excludePatterns = <<>>) =>
    /\ \A i \in 1..Len(result) : InWindow(result[i])
    /\ \A k \in 1..Len(allCommands) :
         ~InWindow(allCommands[k]) =>
           \A i \in 1..Len(result) : result[i].Timestamp # allCommands[k].Timestamp
    /\ \A k \in 1..Len(allCommands) :
         (InWindow(allCommands[k]) /\ TextKeptTS(allCommands[k]))
           => TrimSpace(allCommands[k].Text) \in Texts(result)

\* C17 witness: the history held a record of a day ahead and a record of a
\* quarter of an hour ago, and ReadHistory returned the second.
C17_Witness ==
  /\ pc = "ui"
  /\ \E k \in 1..Len(allCommands) : allCommands[k].Timestamp > now + HourSeconds
  /\ \E i \in 1..Len(result) : result[i].Timestamp = 1789999100

(***************************************************************************)
(* MemoryStorage on its own: Store, then Search                            *)
(***************************************************************************)
\* most commands in a list handed to Store
MaxStored == 3

StoredCommand(text, timestamp, count) ==
  [Text |-> text, Timestamp |-> timestamp, Directory |-> <<>>, Count |-> count,
   ExitCode |-> 0, HasExit |-> FALSE]

GitClone == <<"g", "i", "t", " ", "c", "l", "o", "n", "e">>
GitCommit == <<"g", "i", "t", " ", "c", "o", "m", "m", "i", "t">>
GitBranch == <<"g", "i", "t", " ", "b", "r", "a", "n", "c", "h">>
GitLog == <<"G", "i", "t", " ", "L", "o", "g">>

\* the records a list handed to Store is made of: one per text, as ReadHistory
\* returns them
StoreCommands ==
  {StoredCommand(GitClone, 1, 1), StoredCommand(GitCommit, 2, 2),
   StoredCommand(GitBranch, 3, 1), StoredCommand(GitLog, 4, 3)}

StoreInputs ==
  {cmds \in BoundedSeq(StoreCommands, MaxStored) :
     \A i, j \in 1..Len(cmds) : cmds[i] = cmds[j] => i = j}

\* the queries typed in search mode
QueryGitC == <<"g", "i", "t", " ", "c">>
QueryLogGit == <<"L", "O", "G", " ", " ", "g", "i", "t">>
StoreQueries == {<<>>, QueryGitC, QueryLogGit, <<" ">>, <<"x">>}

\* Store
Store(cmds) ==
  /\ pc = "new"
  /\ commands' = cmds
  /\ indexed' = buildIndex(cmds)
  /\ pc' = "ui"
  /\ UNCHANGED <<files, maxLines, excludePatterns, patternArg, patternErr,
                 allCommands, result, readErr, query, out>>
  /\ UNCHANGED fileVars
  /\ UNCHANGED parseVars
  /\ UNCHANGED uiVars

NextStore ==
  \/ \E cmds \in StoreInputs : Store(cmds)
  \/ \E q \in StoreQueries : DoSearch(q)
  \/ \E limit \in 0..MaxStored : DoGetRecent(limit)
  \/ DoGetByFrequency
  \/ DoGetAll

SpecStore == Init /\ [][NextStore]_vars

\* the whitespace-separated terms of a query, lower-cased
Terms(q) == Fields(ToLower(q))

\* the lower-cased text of a command holds every term of the query
HoldsAllTerms(c, q) ==
  \A t \in 1..Len(Terms(q)) :
    \E i \in 1..Len(c.Text) :
      /\ i + Len(Terms(q)[t]) - 1 <= Len(c.Text)
      /\ SubSeq(ToLower(c.Text), i, i + Len(Terms(q)[t]) - 1) = Terms(q)[t]

C19_SearchOrderedByCount ==
  (pc = "ui" /\ query.op = "Search" /\ query.arg # <<>>) =>
    \A i, j \in 1..Len(out) :
      i < j => \/ out[i].Count > out[j].Count
               \/ out[i].Count = out[j].Count /\ OrderKey(out[i]) >= OrderKey(out[j])

\* C20: the query "git c" matches "git clone" and "git commit" and does not
\* match "git branch": its words match as whole words or word prefixes.
C20_GitCPrefixSearch ==
  (pc = "ui" /\ query = [op |-> "Search", arg |-> QueryGitC]) =>
    /\ \A k \in 1..Len(commands) :
         commands[k].Text \in {GitClone, GitCommit}
           => \E i \in 1..Len(out) : out[i] = commands[k]
    /\ \A i \in 1..Len(out) : out[i].Text # GitBranch

\* the stored records, as a set
Stored == {commands[i] : i \in 1..Len(commands)}

\* the records the last query returned, as a set
Returned == {out[i] : i \in 1..Len(out)}

\* C21: GetByFrequency returns every stored command once and nothing else,
\* ordered by descending count and, among equal counts, by descending
\* ordering key.
C21_FrequencyReturnsAll ==
  (pc = "ui" /\ query.op = "GetByFrequency") =>
    /\ Len(out) = Len(commands)
    /\ Returned = Stored
    /\ \A i, j \in 1..Len(out) :
         i < j => \/ out[i].Count > out[j].Count
                  \/ out[i].Count = out[j].Count /\ OrderKey(out[i]) >= OrderKey(out[j])

\* C22: GetRecent(limit) with limit > 0 returns min(limit, stored) records,
\* all of them stored, in descending order of the ordering key, and no record
\* left out is more recent than one returned; with limit = 0 it returns every
\* stored record.
C22_RecentCapRespected ==
  (pc = "ui" /\ query.op = "GetRecent") =>
    /\ Len(out) = IF query.arg > 0 /\ query.arg < Len(commands)
                  THEN query.arg ELSE Len(commands)
    /\ Returned \subseteq Stored
    /\ Cardinality(Returned) = Len(out)
    /\ \A i, j \in 1..Len(out) : i < j => OrderKey(out[i]) >= OrderKey(out[j])
    /\ \A c \in Stored \ Returned : \A d \in Returned : OrderKey(c) <= OrderKey(d)

\* C22 witness: GetRecent(2) on three records stored oldest first returned
\* the two most recent ones
C22_Witness ==
  /\ pc = "ui"
  /\ query.op = "GetRecent"
  /\ query.arg = 2
  /\ Len(commands) = 3
  /\ OrderKey(commands[1]) < OrderKey(commands[2])
  /\ OrderKey(commands[2]) < OrderKey(commands[3])
  /\ out = <<commands[3], commands[2]>>

\* C28: every record a query returns is equal, field for field, to a record
\* that is stored.
C28_QueriesFaithful ==
  (pc = "ui" /\ query.op # "none") => Returned \subseteq Stored

\* the name of a file gives no dialect signal
NoSignal(filename) ==
  /\ ~Contains(filename, <<"z", "s", "h">>)
  /\ ~Contains(filename, <<"b", "a", "s", "h">>)

\* what a line of the file read stands for: Extended when the name gives no
\* signal and the trimmed line starts with the marker, Plain with the whole
\* trimmed line otherwise
Classified(line) ==
  IF NoSignal(FileRead) /\ HasPrefix(TrimSpace(line), <<":">>)
  THEN parseZshLine(line, 0)
  ELSE Command(TrimSpace(line), 0, 0, FALSE)

\* C25: reading a file whose name holds no "zsh", every non-blank line is
\* classified on its own: in a file of no known name a line starting with
\* the marker ':' is parsed as Extended and every other line is Plain with
\* the whole trimmed line as text; in a bash file every line, one starting
\* with ':' included, is taken whole.
C25_PerLineDialect ==
  (pc = "read" /\ ~fileCommands.err /\ ~Contains(FileRead, <<"z", "s", "h">>)) =>
    LET giving == SelectSeq(KeptLines,
                    LAMBDA l : TrimSpace(l) # <<>> /\ Classified(l).Text # <<>>)
        cmds == fileCommands.commands
    IN /\ Len(cmds) = Len(giving)
       /\ \A k \in 1..Len(cmds) :
            /\ cmds[k].Text = Classified(giving[k]).Text
            /\ cmds[k].HasExit = Classified(giving[k]).HasExit
            /\ cmds[k].ExitCode = Classified(giving[k]).ExitCode

\* C25 witness: a file of no known name holding an Extended line and then a
\* Plain line was read: the first gave the text after the ';', the second
\* its trimmed line.
C25_Witness ==
  /\ pc = "read"
  /\ ~fileCommands.err
  /\ FileRead = HistFile
  /\ files[HistFile].lines = <<LineLs, LineCd>>
  /\ Len(fileCommands.commands) = 2
  /\ fileCommands.commands[1].Text = <<"l", "s">>
  /\ fileCommands.commands[2].Text = <<"c", "d">>

\* ---------------------------------------------------------------------------
\* The interface: Model and Update
\* ---------------------------------------------------------------------------

\* a message of the status line: a fixed text followed by a variable one
Message(text, arg) == <<text, arg>>

NoMessage == Message("", <<>>)

SortedByFrequency == Message("Sorted by frequency", <<>>)

\* loadCommands: the list of the current mode, and the cursor reset when it
\* is past the end
loadCommands(m, store) ==
  LET lists ==
        CASE m.mode = "History" ->
               IF m.searchQuery # <<>> THEN Search(store, m.searchQuery)
               ELSE GetRecent(store, m.maxItems)
          [] m.mode = "Templates" -> {<<>>}
          [] m.mode = "Search" -> Search(store, m.searchQuery)
  IN {[m EXCEPT !.filteredCmds = l,
                !.cursor = IF m.cursor >= Len(l) THEN 0 ELSE m.cursor] : l \in lists}

\* NewModel
NewModel(store, templateList, maxItems) ==
  loadCommands([templates |-> templateList, maxItems |-> maxItems,
                commands |-> <<>>, filteredCmds |-> <<>>, mode |-> "History",
                cursor |-> 0, searchQuery |-> <<>>, width |-> 80, height |-> 24,
                showHelp |-> FALSE, statusMsg |-> NoMessage, errorMsg |-> NoMessage],
               store)

\* getCurrentItem
getCurrentItem(m) ==
  IF m.mode \in {"History", "Search"}
  THEN IF Len(m.filteredCmds) = 0 \/ m.cursor >= Len(m.filteredCmds) THEN <<>>
       ELSE m.filteredCmds[m.cursor + 1].Text
  ELSE IF Len(m.templates) = 0 \/ m.cursor >= Len(m.templates) THEN <<>>
       ELSE m.templates[m.cursor + 1].Command

\* moveUp
moveUp(m) == IF m.cursor > 0 THEN [m EXCEPT !.cursor = m.cursor - 1] ELSE m

\* moveDown without the test against the number of items
moveDownUnbounded(m) == [m EXCEPT !.cursor = m.cursor + 1]

\* moveDown
moveDown(m) ==
  LET maxItems == IF m.mode \in {"History", "Search"} THEN Len(m.filteredCmds)
                  ELSE Len(m.templates)
  IN IF m.cursor < maxItems - 1 THEN [m EXCEPT !.cursor = m.cursor + 1] ELSE m

\* setStatus
setStatus(m, msg) == [m EXCEPT !.statusMsg = msg, !.errorMsg = NoMessage]

\* setError
setError(m, msg) == [m EXCEPT !.errorMsg = msg, !.statusMsg = NoMessage]

\* clearMessages
clearMessages(m) == [m EXCEPT !.statusMsg = NoMessage, !.errorMsg = NoMessage]

\* setSearchQuery
setSearchQuery(m, q, store) == loadCommands([m EXCEPT !.searchQuery = q], store)

\* switchToHistoryMode
switchToHistoryMode(m, store) ==
  {setStatus(r, Message("History mode", <<>>)) :
     r \in loadCommands([m EXCEPT !.mode = "History", !.cursor = 0,
                                  !.searchQuery = <<>>], store)}

\* switchToTemplatesMode
switchToTemplatesMode(m) ==
  setStatus([m EXCEPT !.mode = "Templates", !.cursor = 0],
            Message("Templates mode", <<>>))

\* switchToSearchMode
switchToSearchMode(m) ==
  setStatus([m EXCEPT !.mode = "Search", !.cursor = 0],
            Message("Search mode - type to search", <<>>))

\* exitSearchMode
exitSearchMode(m, store) ==
  IF m.mode = "Search" THEN switchToHistoryMode([m EXCEPT !.searchQuery = <<>>], store)
  ELSE {m}

\* getItemCount
getItemCount(m) ==
  IF m.mode \in {"History", "Search"} THEN Len(m.filteredCmds) ELSE Len(m.templates)

\* resize
resize(m, width, height) == [m EXCEPT !.width = width, !.height = height]

\* what a handler returns: the Model and the command for the runtime
Outcomes(ms, c) == {[model |-> x, cmd |-> c] : x \in ms}

\* truncateString
truncateString(str, maxLen) ==
  IF Len(str) <= maxLen THEN str ELSE SubSeq(str, 1, maxLen - 3) \o <<".", ".", ".">>

\* handleSelectItem: clipboard.Copy succeeds or fails
handleSelectItem(m) ==
  IF getCurrentItem(m) = <<>>
  THEN Outcomes({setError(m, Message("No item selected", <<>>))}, "nil")
  ELSE Outcomes({setError(m, Message("Failed to copy: ", <<>>)),
                  setStatus(m, Message("Copied: ", truncateString(getCurrentItem(m), 50)))},
                 "nil")

\* handleEditTemplates: an editor starts or none does
handleEditTemplates(m) ==
  Outcomes({setStatus(m, Message("Opening templates in ", <<>>)),
             setStatus(m, Message("Edit templates: ", <<>>))}, "nil")

\* freqCmds[:MaxItems] when there are more
cutTo(cmds, n) == IF Len(cmds) > n THEN SubSeq(cmds, 1, n) ELSE cmds

\* handleNormalKeys
handleNormalKeys(m, key, store) ==
  CASE key \in {"ctrl+c", "q"} -> Outcomes({m}, "quit")
    [] key \in {"up", "k"} -> Outcomes({moveUp(m)}, "nil")
    [] key \in {"down", "j"} -> Outcomes({moveDown(m)}, "nil")
    [] key = "enter" -> handleSelectItem(m)
    [] key = "/" -> Outcomes({switchToSearchMode(m)}, "nil")
    [] key = "t" ->
         IF m.mode = "Templates" THEN Outcomes(switchToHistoryMode(m, store), "nil")
         ELSE Outcomes({switchToTemplatesMode(m)}, "nil")
    [] key = "h" -> Outcomes(switchToHistoryMode(m, store), "nil")
    [] key = "r" ->
         Outcomes({setStatus(r, Message("Refreshed", <<>>)) : r \in loadCommands(m, store)},
                   "nil")
    [] key = "f" ->
         IF m.mode # "History" THEN Outcomes({m}, "nil")
         ELSE IF m.statusMsg = SortedByFrequency
         THEN Outcomes(
                {setStatus([m EXCEPT !.filteredCmds = l, !.cursor = 0],
                           Message("Sorted chronologically (newest first)", <<>>)) :
                   l \in GetRecent(store, m.maxItems)}, "nil")
         ELSE Outcomes(
                {setStatus([m EXCEPT !.filteredCmds = cutTo(l, m.maxItems), !.cursor = 0],
                           SortedByFrequency) :
                   l \in GetByFrequency(store)}, "nil")
    [] key = "?" -> Outcomes({[m EXCEPT !.showHelp = ~m.showHelp]}, "nil")
    [] key = "e" ->
         IF m.mode = "Templates" THEN handleEditTemplates(m) ELSE Outcomes({m}, "nil")
    [] key = "esc" -> Outcomes({[clearMessages(m) EXCEPT !.showHelp = FALSE]}, "nil")
    [] key = "s" ->
         IF m.mode # "History" THEN Outcomes({m}, "nil")
         ELSE Outcomes(
                {setStatus([m EXCEPT
                              !.filteredCmds =
                                 SelectSeq(l, LAMBDA c : ~c.HasExit \/ c.ExitCode = 0),
                              !.cursor = 0],
                           Message("Showing only successful commands", <<>>)) :
                   l \in GetRecent(store, m.maxItems)}, "nil")
    [] key = "x" ->
         IF m.mode # "History" THEN Outcomes({m}, "nil")
         ELSE Outcomes(
                {setStatus([m EXCEPT
                              !.filteredCmds =
                                 SelectSeq(l, LAMBDA c : c.HasExit /\ c.ExitCode # 0),
                              !.cursor = 0],
                           Message("Showing only failed commands", <<>>)) :
                   l \in GetRecent(store, m.maxItems)}, "nil")
    [] OTHER -> Outcomes({m}, "nil")

\* the keys whose name is one byte long
OneByteKeys == {"q", "k", "j", "/", "t", "h", "r", "f", "?", "e", "s", "x", "g"}

\* len(msg.String())
KeyLen(key) == IF key \in OneByteKeys THEN 1 ELSE 2

\* search mode handling its keys as the other modes do
handleSearchKeysAsNormal(m, key, store) == handleNormalKeys(m, key, store)

\* handleSearchKeys
handleSearchKeys(m, key, store) ==
  CASE key = "ctrl+c" -> Outcomes({m}, "quit")
    [] key = "esc" -> Outcomes(exitSearchMode(m, store), "nil")
    [] key = "enter" -> handleSelectItem(m)
    [] key \in {"up", "ctrl+p"} -> Outcomes({moveUp(m)}, "nil")
    [] key \in {"down", "ctrl+n"} -> Outcomes({moveDown(m)}, "nil")
    [] key = "backspace" ->
         IF Len(m.searchQuery) > 0
         THEN Outcomes(setSearchQuery(m, SubSeq(m.searchQuery, 1, Len(m.searchQuery) - 1),
                                       store), "nil")
         ELSE Outcomes({m}, "nil")
    [] OTHER ->
         IF KeyLen(key) = 1
         THEN Outcomes(setSearchQuery(m, Append(m.searchQuery, key), store), "nil")
         ELSE Outcomes({m}, "nil")

\* handleKeyPress
handleKeyPress(m, key, store) ==
  IF m.mode = "Search" THEN handleSearchKeys(m, key, store)
  ELSE handleNormalKeys(m, key, store)

\* the sort label of renderFooter
sortInfo(m) ==
  IF getItemCount(m) > 0
  THEN IF m.mode = "History"
       THEN IF m.statusMsg = SortedByFrequency THEN " (by frequency)"
            ELSE " (newest first)"
       ELSE ""
  ELSE "none"

\* longest query typed in search mode
MaxQueryLen == 1

\* the commands main stored before the interface started: every Count is 1,
\* as ReadHistory returns them
UILs == [StoredCommand(<<"l", "s">>, 1, 1) EXCEPT !.HasExit = TRUE]
UICommit == [StoredCommand(GitCommit, 2, 1) EXCEPT !.HasExit = TRUE, !.ExitCode = 1]
UIPwd == StoredCommand(<<"p", "w", "d">>, 3, 1)
UIStores == {<<>>, <<UILs, UICommit, UIPwd>>}

\* the templates main loaded
UITemplate(name, command) == [Name |-> name, Command |-> command]
UITemplates ==
  {<<>>, <<UITemplate("list", <<"l", "s">>), UITemplate("where", <<"p", "w", "d">>)>>}

\* the values of config.UI.MaxItems
UIMaxItems == {2, 5}

\* the window sizes the terminal reports
WindowSizes == {<<80, 24>>, <<40, 5>>}

\* the keys pressed
Keys ==
  OneByteKeys \cup {"ctrl+c", "up", "down", "enter", "esc", "backspace",
                    "ctrl+p", "ctrl+n", "tab"}

\* main has stored the history and built the Model
InitUI ==
  /\ files = [f \in {ZshFile, HistFile} |-> [status |-> "ok", lines |-> <<>>]]
  /\ maxLines = DefaultMaxLines
  /\ excludePatterns = <<>>
  /\ patternArg = <<>>
  /\ patternErr = FALSE
  /\ allCommands = <<>>
  /\ result = <<>>
  /\ readErr = FALSE
  /\ commands \in UIStores
  /\ indexed = buildIndex(commands)
  /\ query = NoQuery
  /\ out = <<>>
  /\ fileCommands = NoRead
  /\ now = StartTime
  /\ lineArg = NoLine
  /\ lineOut = NoParse
  /\ \E templateList \in UITemplates, maxItems \in UIMaxItems :
       uiModel \in NewModel(commands, templateList, maxItems)
  /\ uiCmd = "nil"
  /\ uiKey = "none"
  /\ pc = "ui"

\* the key extends the query typed in search mode
ExtendsQuery(m, key) ==
  /\ m.mode = "Search"
  /\ key \notin {"ctrl+c", "esc", "enter", "up", "ctrl+p", "down", "ctrl+n", "backspace"}
  /\ KeyLen(key) = 1

\* Update with a tea.KeyMsg
KeyPress(key) ==
  /\ pc = "ui"
  /\ uiCmd # "quit"
  /\ ExtendsQuery(uiModel, key) => Len(uiModel.searchQuery) < MaxQueryLen
  /\ \E r \in handleKeyPress(uiModel, key, commands) :
       /\ uiModel' = r.model
       /\ uiCmd' = r.cmd
  /\ uiKey' = key
  /\ UNCHANGED <<files, maxLines, commands, indexed, pc>>
  /\ UNCHANGED <<excludePatterns, patternArg, patternErr, allCommands, result,
                 readErr, query, out>>
  /\ UNCHANGED fileVars
  /\ UNCHANGED parseVars

\* Update with a tea.WindowSizeMsg
WindowSize(width, height) ==
  /\ pc = "ui"
  /\ uiCmd # "quit"
  /\ uiModel' = resize(uiModel, width, height)
  /\ uiCmd' = "nil"
  /\ uiKey' = "resize"
  /\ UNCHANGED <<files, maxLines, commands, indexed, pc>>
  /\ UNCHANGED <<excludePatterns, patternArg, patternErr, allCommands, result,
                 readErr, query, out>>
  /\ UNCHANGED fileVars
  /\ UNCHANGED parseVars

NextUI ==
  \/ \E key \in Keys : KeyPress(key)
  \/ \E size \in WindowSizes : WindowSize(size[1], size[2])

SpecUI == InitUI /\ [][NextUI]_vars

\* C26: the cursor is never negative, and it is 0 or below the number of
\* items of the current mode.
C26_CursorInRange ==
  pc = "ui" =>
    /\ uiModel.cursor >= 0
    /\ uiModel.cursor = 0 \/ uiModel.cursor < getItemCount(uiModel)

\* C26 witness: 'j' moved the cursor onto the last item of a list cut to
\* MaxItems while more commands are stored
C26_Witness ==
  /\ pc = "ui"
  /\ uiKey = "j"
  /\ uiModel.mode = "History"
  /\ uiModel.cursor = 1
  /\ Len(uiModel.filteredCmds) = 2
  /\ Len(commands) = 3

\* C23: when backspace empties the query typed in search mode, the list
\* Search("") gives the interface is the stored commands most recent first,
\* cut to config.UI.MaxItems: the list GetRecent(MaxItems) gives.
C23_EmptySearchCutToMaxItems ==
  (pc = "ui" /\ uiModel.mode = "Search" /\ Len(uiModel.searchQuery) = 1) =>
    \A r \in handleKeyPress(uiModel, "backspace", commands) :
      /\ r.model.searchQuery = <<>>
      /\ Len(r.model.filteredCmds) <= uiModel.maxItems
      /\ r.model.filteredCmds \in GetRecent(commands, uiModel.maxItems)

\* the displayed list is what the 'f' key shows for the frequency order
ShowsFrequencyOrder ==
  uiModel.filteredCmds \in
    {cutTo(l, uiModel.maxItems) : l \in GetByFrequency(commands)}

\* the displayed list is in descending order of the ordering key
ShowsRecencyOrder ==
  \A i, j \in 1..Len(uiModel.filteredCmds) :
    i < j => OrderKey(uiModel.filteredCmds[i]) >= OrderKey(uiModel.filteredCmds[j])

\* C27: in History mode, whenever the displayed list tells the two orders
\* apart, the footer shows "(by frequency)" exactly when the list is the
\* GetByFrequency order and "(newest first)" exactly when it is in recency
\* order, and 'f' pressed on a list in frequency order gives the list of
\* GetRecent(MaxItems).
C27_FooterTellsOrder ==
  (/\ pc = "ui"
   /\ uiModel.mode = "History"
   /\ Len(uiModel.filteredCmds) > 0
   /\ ~(ShowsFrequencyOrder /\ ShowsRecencyOrder)) =>
    /\ sortInfo(uiModel) = " (by frequency)" <=> ShowsFrequencyOrder
    /\ sortInfo(uiModel) = " (newest first)" <=> ShowsRecencyOrder
    /\ ShowsFrequencyOrder =>
         \A r \in handleKeyPress(uiModel, "f", commands) :
           r.model.filteredCmds \in GetRecent(commands, uiModel.maxItems)

\* C29: while the help screen is shown, every key closes it and changes
\* neither the mode, nor the cursor, nor the displayed list.
C29_AnyKeyClosesHelp ==
  (pc = "ui" /\ uiCmd # "quit" /\ uiModel.showHelp) =>
    \A key \in Keys : \A r \in handleKeyPress(uiModel, key, commands) :
      /\ ~r.model.showHelp
      /\ r.model.mode = uiModel.mode
      /\ r.model.cursor = uiModel.cursor
      /\ r.model.filteredCmds = uiModel.filteredCmds

\* C30: in search mode a key of one character is appended to the query and
\* neither quits nor changes the mode, the messages or the help flag; ctrl+c
\* is the only key that quits; esc leads to History mode with an empty
\* query, the cursor at 0 and the list of GetRecent(MaxItems).
C30_SearchModeKeys ==
  (pc = "ui" /\ uiCmd # "quit" /\ uiModel.mode = "Search") =>
    /\ \A key \in OneByteKeys : \A r \in handleKeyPress(uiModel, key, commands) :
         /\ r.cmd = "nil"
         /\ r.model.mode = "Search"
         /\ r.model.searchQuery = Append(uiModel.searchQuery, key)
         /\ r.model.statusMsg = uiModel.statusMsg
         /\ r.model.errorMsg = uiModel.errorMsg
         /\ r.model.showHelp = uiModel.showHelp
    /\ \A key \in Keys : \A r \in handleKeyPress(uiModel, key, commands) :
         r.cmd = "quit" <=> key = "ctrl+c"
    /\ \A r \in handleKeyPress(uiModel, "esc", commands) :
         /\ r.model.mode = "History"
         /\ r.model.searchQuery = <<>>
         /\ r.model.cursor = 0
         /\ r.model.filteredCmds \in GetRecent(commands, uiModel.maxItems)

\* C30 witness: 'q' typed in search mode became the query, nothing quit
C30_Witness ==
  /\ pc = "ui"
  /\ uiKey = "q"
  /\ uiModel.mode = "Search"
  /\ uiModel.searchQuery = <<"q">>
  /\ uiCmd = "nil"
  /\ Len(commands) = 3

\* ---------------------------------------------------------------------------
\* Refresh while the interface runs
\* ---------------------------------------------------------------------------

\* the lines shells write while the program runs
LiveLines == {LineLs, LinePw}

\* main started on empty history files: the store is empty, the interface runs
InitRefresh ==
  /\ files = [f \in {ZshFile, HistFile} |-> [status |-> "ok", lines |-> <<>>]]
  /\ maxLines = DefaultMaxLines
  /\ excludePatterns = <<>>
  /\ patternArg = <<>>
  /\ patternErr = FALSE
  /\ allCommands = <<>>
  /\ result = <<>>
  /\ readErr = FALSE
  /\ commands = <<>>
  /\ indexed = <<>>
  /\ query = NoQuery
  /\ out = <<>>
  /\ fileCommands = NoRead
  /\ now = StartTime
  /\ lineArg = NoLine
  /\ lineOut = NoParse
  /\ uiModel = NoModel
  /\ uiCmd = "nil"
  /\ uiKey = "none"
  /\ pc = "ui"

\* a shell appends a line to its history file while the program runs
ShellAppendLive(f, line) ==
  /\ pc = "ui"
  /\ TotalLines < MaxTotalLines
  /\ files' = [files EXCEPT ![f].lines = Append(@, line)]
  /\ UNCHANGED <<maxLines, excludePatterns, patternArg, patternErr, allCommands,
                 result, readErr, commands, indexed, query, out, pc>>
  /\ UNCHANGED fileVars
  /\ UNCHANGED parseVars
  /\ UNCHANGED uiVars

\* a shell clears its history file while the program runs
ShellTruncate(f) ==
  /\ pc = "ui"
  /\ files[f].lines # <<>>
  /\ files' = [files EXCEPT ![f].lines = <<>>]
  /\ UNCHANGED <<maxLines, excludePatterns, patternArg, patternErr, allCommands,
                 result, readErr, commands, indexed, query, out, pc>>
  /\ UNCHANGED fileVars
  /\ UNCHANGED parseVars
  /\ UNCHANGED uiVars

\* the 'r' key: the refresh callback of main runs to completion inside Update
refreshAllData ==
  /\ pc = "ui"
  /\ loadHistory

NextRefresh ==
  \/ \E f \in {ZshFile, HistFile}, line \in LiveLines : ShellAppendLive(f, line)
  \/ \E f \in {ZshFile, HistFile} : ShellTruncate(f)
  \/ refreshAllData
  \/ \E q \in Queries : DoSearch(q)
  \/ \E limit \in 0..MaxLimit : DoGetRecent(limit)
  \/ DoGetByFrequency
  \/ DoGetAll

SpecRefresh == InitRefresh /\ [][NextRefresh]_vars

====
